---------------------------- MODULE Spec2Model ----------------------------
(* EQS_Painel/app.py: a Dash dashboard over Clusters_EQS_V2.xlsx.           *)
(* The module-level code loads three sheets, normalises them and derives    *)
(* `leaders` and `df_centroids`; the callback update_dashboard answers each *)
(* dropdown change with the pair (build_map, build_bars_pie).               *)
(*                                                                          *)
(* Encoding.  Leader identifiers are strings in the workbook; they are      *)
(* modelled as naturals whose numeric order is the strings' sort order,     *)
(* with 0 standing for the empty string "".  Coordinates are whole degrees  *)
(* in the workbook; every computed coordinate is an exact rational <<n, d>> *)
(* (float rounding is not modelled).  A missing cell is NaN; a missing      *)
(* text cell is NA.                                                         *)
EXTENDS Integers, Sequences, FiniteSets, TLC

VARIABLES xlsx, pc, df_resumo, df_atas, df_eqp, leaders, df_centroids, session

vars == <<xlsx, pc, df_resumo, df_atas, df_eqp, leaders, df_centroids, session>>

(* ------------------------------ bounds ---------------------------------- *)
MaxRows == 2
NumModels == 10
MaxBoost == 2
NumLeaders == 11
MaxMissing == 1
NumSessions == 2

(* ------------------------- program constants ---------------------------- *)
TopBars == 5
TopPie == 8
MinPad == 2
PadPercent == 20
NaN == -999
EmptyStr == 0
None == NaN
NA == "<NA>"
Outros == "Outros"
palette == << "#636EFA", "#EF553B", "#00CC96", "#AB63FA", "#FFA15A",
              "#19D3F3", "#FF6692", "#B6E880", "#FF97FF", "#FECB52" >>
AtasColor == "rgba(120,120,120,0.5)"
StarColor == "gold"

(* --------------------------- exact numbers ------------------------------ *)
Abs(x) == IF x < 0 THEN -x ELSE x

RECURSIVE GCD(_, _)
GCD(a, b) == IF b = 0 THEN a ELSE GCD(b, a % b)

Rat(n, d) == LET g == GCD(Abs(n), d) IN <<n \div g, d \div g>>
R(n) == <<n, 1>>
RAdd(a, b) == Rat(a[1] * b[2] + b[1] * a[2], a[2] * b[2])
RSub(a, b) == Rat(a[1] * b[2] - b[1] * a[2], a[2] * b[2])
RScale(a, p, q) == Rat(a[1] * p, a[2] * q)
RLeq(a, b) == a[1] * b[2] <= b[1] * a[2]
RMax(a, b) == IF RLeq(a, b) THEN b ELSE a

(* --------------------------- sequences ---------------------------------- *)
Range(s) == {s[i] : i \in DOMAIN s}
SeqsUpTo(S, n) == UNION {[1..k -> S] : k \in 0..n}
Head_(s, n) == SubSeq(s, 1, IF Len(s) < n THEN Len(s) ELSE n)
Tail_(s, n) == SubSeq(s, n + 1, Len(s))
MinOf(S) == CHOOSE x \in S : \A y \in S : x <= y
MaxOf(S) == CHOOSE x \in S : \A y \in S : y <= x

RECURSIVE Sum(_)
Sum(s) == IF s = <<>> THEN 0 ELSE Head(s) + Sum(Tail(s))

RECURSIVE sorted(_)
sorted(S) == IF S = {} THEN <<>> ELSE <<MinOf(S)>> \o sorted(S \ {MinOf(S)})

RECURSIVE Concat(_)
Concat(ss) == IF ss = <<>> THEN <<>> ELSE Head(ss) \o Concat(Tail(ss))

(* --------------------------- data frames -------------------------------- *)
(* A frame is its column names and its rows; a row maps each column of the  *)
(* frame to a cell.                                                         *)
EmptyDF == [columns |-> {}, rows |-> <<>>]
HasCol(df, c) == c \in df.columns
Column(df, c) == [i \in DOMAIN df.rows |-> df.rows[i][c]]
Filter(df, c, v) == [df EXCEPT !.rows = SelectSeq(df.rows, LAMBDA r : r[c] = v)]
dropna(df, c) == [df EXCEPT !.rows = SelectSeq(df.rows, LAMBDA r : r[c] # NaN)]
empty(df) == df.rows = <<>> \/ df.columns = {}
DropCol(df, c) ==
    [columns |-> df.columns \ {c},
     rows |-> [i \in DOMAIN df.rows |->
                 [k \in (DOMAIN df.rows[i]) \ {c} |-> df.rows[i][k]]]]

(* ------------------------- workbooks (inputs) --------------------------- *)
ResumoDF(ls) ==
    [columns |-> {"ATA_Lider"},
     rows |-> [i \in DOMAIN ls |-> [ATA_Lider |-> ls[i]]]]
AtasDF(pts) ==
    [columns |-> {"ATA", "Latitude", "Longitude"},
     rows |-> [i \in DOMAIN pts |->
                 [ATA |-> i, Latitude |-> pts[i][1], Longitude |-> pts[i][2]]]]
EqpDF(rs) ==
    [columns |-> {"Serial", "Modelo", "ATA_Lider", "Latitude", "Longitude"},
     rows |-> [i \in DOMAIN rs |->
                 [Serial |-> i, ATA_Lider |-> rs[i][1], Modelo |-> rs[i][2],
                  Latitude |-> rs[i][3], Longitude |-> rs[i][4]]]]
Workbook(ls, pts, rs) ==
    [resumo |-> ResumoDF(ls), atas |-> AtasDF(pts), eqp |-> EqpDF(rs)]

(* The end-to-end scenario: leaders 1 and 2, 1 has two points, 2 has one.   *)
ScenarioResumo == <<2, 1>>
ScenarioAtas == << <<-10, -50>>, <<-15, NaN>> >>
ScenarioEqp == << <<1, "X", -10, -50>>, <<1, "Y", -12, -52>>,
                  <<2, "X", -20, -60>>, <<2, NA, NaN, -60>> >>
CoreFiles ==
    {Workbook(ScenarioResumo, pts, rs) :
        pts \in {<<>>, ScenarioAtas}, rs \in {<<>>, ScenarioEqp}}

(* Geography: every table of at most MaxRows equipment rows over three      *)
(* leader cells and five points, under two cluster summaries.               *)
GeoPoints == {<<-10, -50>>, <<-12, -52>>, <<-30, -50>>, <<NaN, -52>>, <<-10, NaN>>}
GeoRows == {<<l, "X", p[1], p[2]>> : l \in {1, 2, NaN}, p \in GeoPoints}
GeoFiles ==
    {Workbook(ls, << <<-10, -50>> >>, rs) :
        ls \in {<<2, 1>>, <<1, NaN, 1>>}, rs \in SeqsUpTo(GeoRows, MaxRows)}

(* Reference points: every table of at most MaxRows reference rows.         *)
AtasPoints == {<<-10, -50>>, <<NaN, -50>>, <<-10, NaN>>}
RefFiles ==
    {Workbook(ScenarioResumo, pts, ScenarioEqp) :
        pts \in SeqsUpTo(AtasPoints, MaxRows)}

(* Model mix: n distinct models, one row each for leader 1 in the order     *)
(* M1, M2, ...; optionally the first or the last of them is named "Outros"; *)
(* at most MaxBoost of them have a second row, for leader 2.                *)
ModelName(i, n, o) ==
    IF (o = 1 /\ i = 1) \/ (o = 2 /\ i = n) THEN Outros
    ELSE <<"M1", "M2", "M3", "M4", "M5", "M6", "M7", "M8", "M9", "M10",
           "M11", "M12">>[i]
ModelRows(n, o, B) ==
    [i \in 1..n |-> <<1, ModelName(i, n, o), -10, -50>>]
    \o [j \in 1..Cardinality(B) |->
          <<2, ModelName(sorted(B)[j], n, o), -20, -60>>]
ModelFiles ==
    {Workbook(ScenarioResumo, <<>>, ModelRows(n, o, B)) :
        <<n, o, B>> \in
            {t \in (0..NumModels) \X (0..2) \X
                   {b \in SUBSET (1..NumModels) : Cardinality(b) <= MaxBoost} :
                 t[3] \subseteq 1..t[1]}}

(* Many clusters: k leaders listed in descending order, one equipment row   *)
(* for each of the leaders a..k.                                            *)
PaletteFiles ==
    {Workbook([i \in 1..k |-> k + 1 - i], <<>>,
              [j \in 1..(k + 1 - a) |-> <<k + 1 - j, "X", -10, -50>>]) :
        <<k, a>> \in {t \in (0..NumLeaders) \X (1..NumLeaders + 1) :
                         t[2] <= t[1] + 1}}

(* Workbooks with columns missing from their sheets.                        *)
Droppable ==
    {<<"resumo", "ATA_Lider">>, <<"atas", "Latitude">>, <<"atas", "Longitude">>,
     <<"eqp", "ATA_Lider">>, <<"eqp", "Latitude">>, <<"eqp", "Longitude">>,
     <<"eqp", "Serial">>, <<"eqp", "Modelo">>}
RECURSIVE DropCols(_, _)
DropCols(f, M) ==
    IF M = {} THEN f
    ELSE LET m == CHOOSE x \in M : TRUE
         IN DropCols([f EXCEPT ![m[1]] = DropCol(f[m[1]], m[2])], M \ {m})
ColumnFiles ==
    {DropCols(f, M) :
        f \in CoreFiles,
        M \in {m \in SUBSET Droppable : m # {} /\ Cardinality(m) <= MaxMissing}}

Files == CoreFiles \cup GeoFiles \cup RefFiles \cup ModelFiles
         \cup PaletteFiles \cup ColumnFiles

Selections == {EmptyStr, 1, 2}


(* ---------------------- module-level load (39-57) ----------------------- *)
Normalise(df) ==
    LET a == IF HasCol(df, "Latitude") THEN dropna(df, "Latitude") ELSE df
    IN IF HasCol(a, "Longitude") THEN dropna(a, "Longitude") ELSE a

LeadersOf(resumo) == sorted(Range(Column(dropna(resumo, "ATA_Lider"), "ATA_Lider")))

mean(col) == Rat(Sum(col), Len(col))

(* Variant: every group's sum divided by the row count of the whole table. *)
CentroidsOverAllRows(eqp) ==
    LET keys == sorted(Range(Column(dropna(eqp, "ATA_Lider"), "ATA_Lider")))
    IN [i \in DOMAIN keys |->
          LET g == Filter(eqp, "ATA_Lider", keys[i])
          IN [ATA_Lider |-> keys[i],
              Lat_Centroide |-> Rat(Sum(Column(g, "Latitude")), Len(eqp.rows)),
              Lon_Centroide |-> Rat(Sum(Column(g, "Longitude")), Len(eqp.rows))]]

Centroids(eqp) ==
    LET keys == sorted(Range(Column(dropna(eqp, "ATA_Lider"), "ATA_Lider")))
    IN [i \in DOMAIN keys |->
          LET g == Filter(eqp, "ATA_Lider", keys[i])
          IN [ATA_Lider |-> keys[i],
              Lat_Centroide |-> mean(Column(g, "Latitude")),
              Lon_Centroide |-> mean(Column(g, "Longitude"))]]

(* df_resumo["ATA_Lider"] and the groupby raise KeyError on a missing       *)
(* column; the normalisation loop skips a missing column.                   *)
LoadRaises(f) ==
    \/ ~HasCol(f.resumo, "ATA_Lider")
    \/ ~({"ATA_Lider", "Latitude", "Longitude"} \subseteq f.eqp.columns)

Load ==
    /\ pc = "start"
    /\ IF LoadRaises(xlsx)
       THEN /\ pc' = "load_failed"
            /\ UNCHANGED <<df_resumo, df_atas, df_eqp, leaders, df_centroids>>
       ELSE /\ pc' = "serving"
            /\ df_resumo' = xlsx.resumo
            /\ df_atas' = Normalise(xlsx.atas)
            /\ df_eqp' = Normalise(xlsx.eqp)
            /\ leaders' = LeadersOf(xlsx.resumo)
            /\ df_centroids' = Centroids(Normalise(xlsx.eqp))
    /\ UNCHANGED <<xlsx, session>>

(* ----------------------------- build_map -------------------------------- *)
Truthy(v) == v # None /\ v # EmptyStr
RCol(df, c) == [i \in DOMAIN df.rows |-> R(df.rows[i][c])]

AtasTraces ==
    IF ~empty(df_atas)
    THEN << [kind |-> "atas", name |-> 0,
             lon |-> RCol(df_atas, "Longitude"), lat |-> RCol(df_atas, "Latitude"),
             text |-> <<>>, customdata |-> <<>>, color |-> AtasColor] >>
    ELSE <<>>

(* Variant: the rank clamped to the last palette entry instead of wrapped. *)
color_map_clamped(i) == palette[(IF i < Len(palette) THEN i ELSE Len(palette) - 1) + 1]

color_map(i) == palette[(i % Len(palette)) + 1]

(* Variant: no `continue` for a leader without rows. *)
EquipTraceNoSkip(i) ==
    LET dfc == Filter(df_eqp, "ATA_Lider", leaders[i])
    IN << [kind |-> "equip", name |-> leaders[i],
           lon |-> RCol(dfc, "Longitude"), lat |-> RCol(dfc, "Latitude"),
           text |-> Column(dfc, "Serial"),
           customdata |-> Column(dfc, "Modelo"),
           color |-> color_map(i - 1)] >>

EquipTrace(i) ==
    LET dfc == Filter(df_eqp, "ATA_Lider", leaders[i])
    IN IF empty(dfc) THEN <<>>
       ELSE << [kind |-> "equip", name |-> leaders[i],
                lon |-> RCol(dfc, "Longitude"), lat |-> RCol(dfc, "Latitude"),
                text |-> Column(dfc, "Serial"),
                customdata |-> Column(dfc, "Modelo"),
                color |-> color_map(i - 1)] >>

EquipTraces == Concat([i \in DOMAIN leaders |-> EquipTrace(i)])

(* Variant: the membership test `selected_leader in leaders` left out. *)
StarRowAnyLeader(selected_leader) ==
    IF Truthy(selected_leader)
    THEN SelectSeq(df_centroids, LAMBDA c : c.ATA_Lider = selected_leader)
    ELSE <<>>

(* The centroid rows of the selected leader (105-107).                      *)
StarRow(selected_leader) ==
    IF Truthy(selected_leader) /\ selected_leader \in Range(leaders)
    THEN SelectSeq(df_centroids, LAMBDA c : c.ATA_Lider = selected_leader)
    ELSE <<>>

StarTraces(selected_leader) ==
    LET row == StarRow(selected_leader)
    IN IF row # <<>>
       THEN << [kind |-> "star", name |-> selected_leader,
                lon |-> <<row[1].Lon_Centroide>>, lat |-> <<row[1].Lat_Centroide>>,
                text |-> <<selected_leader>>, customdata |-> <<>>,
                color |-> StarColor] >>
       ELSE <<>>

(* Variant: the 2-degree minimum left out. *)
PadNoMinimum(extent) == RScale(extent, PadPercent, 100)

Pad(extent) == RMax(RScale(extent, PadPercent, 100), R(MinPad))

PaddedRange(col) ==
    LET lo == R(MinOf(Range(col)))
        hi == R(MaxOf(Range(col)))
        pad == Pad(RSub(hi, lo))
    IN <<RSub(lo, pad), RAdd(hi, pad)>>

DefaultLat == <<R(-34), R(6)>>
DefaultLon == <<R(-75), R(-34)>>

AxisRange(selected_leader, c, default) ==
    LET dfc == Filter(df_eqp, "ATA_Lider", selected_leader)
    IN IF StarRow(selected_leader) # <<>> /\ ~empty(dfc)
       THEN PaddedRange(Column(dfc, c))
       ELSE default

(* Reading a column the frame lacks raises KeyError.                        *)
MapRaises ==
    \/ ~empty(df_atas) /\ ~({"Longitude", "Latitude"} \subseteq df_atas.columns)
    \/ \E i \in DOMAIN leaders :
          /\ ~empty(Filter(df_eqp, "ATA_Lider", leaders[i]))
          /\ ~({"Serial", "Modelo"} \subseteq df_eqp.columns)

NoMap == [error |-> TRUE, data |-> <<>>, lataxis |-> DefaultLat, lonaxis |-> DefaultLon]

build_map(selected_leader) ==
    IF MapRaises THEN NoMap
    ELSE [error |-> FALSE,
          data |-> AtasTraces \o EquipTraces \o StarTraces(selected_leader),
          lataxis |-> AxisRange(selected_leader, "Latitude", DefaultLat),
          lonaxis |-> AxisRange(selected_leader, "Longitude", DefaultLon)]

(* --------------------------- build_bars_pie ----------------------------- *)
RECURSIVE Encounter(_)
Encounter(s) ==
    IF s = <<>> THEN <<>>
    ELSE LET r == Encounter(SubSeq(s, 1, Len(s) - 1))
         IN IF s[Len(s)] \in Range(r) THEN r ELSE Append(r, s[Len(s)])

Occurrences(s, m) == Cardinality({i \in DOMAIN s : s[i] = m})

(* Insert e after every entry whose count is at least e's.                  *)
RECURSIVE InsertDesc(_, _)
InsertDesc(s, e) ==
    IF s = <<>> THEN <<e>>
    ELSE IF Head(s).n >= e.n THEN <<Head(s)>> \o InsertDesc(Tail(s), e)
    ELSE <<e>> \o s

RECURSIVE SortDesc(_)
SortDesc(s) ==
    IF s = <<>> THEN <<>>
    ELSE InsertDesc(SortDesc(SubSeq(s, 1, Len(s) - 1)), s[Len(s)])

(* Variant: the counts in order of first occurrence, not sorted. *)
value_counts_unsorted(col) ==
    LET vals == SelectSeq(col, LAMBDA m : m # NA)
        keys == Encounter(vals)
    IN [i \in DOMAIN keys |->
          [label |-> keys[i], n |-> Occurrences(vals, keys[i])]]

(* Series.value_counts().sort_values(ascending=False): missing values are   *)
(* not counted; equal counts keep the order of first occurrence.            *)
value_counts(col) ==
    LET vals == SelectSeq(col, LAMBDA m : m # NA)
        keys == Encounter(vals)
    IN SortDesc([i \in DOMAIN keys |->
                    [label |-> keys[i], n |-> Occurrences(vals, keys[i])]])

(* parts.loc[label] = v: overwrite the entry labelled so, else append one.  *)
LocAssign(parts, label, v) ==
    IF \E i \in DOMAIN parts : parts[i].label = label
    THEN [i \in DOMAIN parts |->
            IF parts[i].label = label THEN [label |-> label, n |-> v] ELSE parts[i]]
    ELSE Append(parts, [label |-> label, n |-> v])

PieParts(cont) ==
    IF Len(cont) > TopPie
    THEN LocAssign(Head_(cont, TopPie), Outros,
                   Sum([i \in DOMAIN Tail_(cont, TopPie) |-> Tail_(cont, TopPie)[i].n]))
    ELSE cont

(* The rows the figure is computed over (156-161).                          *)
Scoped(selected_leader) == Truthy(selected_leader) /\ selected_leader \in Range(leaders)

(* Variant: every given value filters, member of leaders or not. *)
SelectRowsAnyLeader(selected_leader) ==
    IF Truthy(selected_leader)
    THEN Filter(df_eqp, "ATA_Lider", selected_leader)
    ELSE df_eqp

SelectRows(selected_leader) ==
    IF Scoped(selected_leader)
    THEN Filter(df_eqp, "ATA_Lider", selected_leader)
    ELSE df_eqp

Labels(s) == [i \in DOMAIN s |-> s[i].label]
Values(s) == [i \in DOMAIN s |-> s[i].n]

NoDist ==
    [error |-> TRUE, title |-> <<"", None>>,
     bars |-> [x |-> <<>>, y |-> <<>>], pie |-> [labels |-> <<>>, values |-> <<>>]]

build_bars_pie(selected_leader) ==
    IF ~HasCol(df_eqp, "Modelo") THEN NoDist
    ELSE LET dfc == SelectRows(selected_leader)
             cont == value_counts(Column(dfc, "Modelo"))
             top5 == Head_(cont, TopBars)
             parts == PieParts(cont)
         IN [error |-> FALSE,
             title |-> IF Scoped(selected_leader)
                       THEN <<"Cluster", selected_leader>>
                       ELSE <<"Brasil inteiro", None>>,
             bars |-> [x |-> Labels(top5), y |-> Values(top5)],
             pie |-> [labels |-> Labels(parts), values |-> Values(parts)]]

(* ------------------------- callback (265-272) --------------------------- *)
(* A session holds one message: its change on the way to the server         *)
(* ("pending"), the pair of figures returned ("shown"), or the failure of   *)
(* the callback ("error").                                                  *)
Idle == [state |-> "idle", value |-> EmptyStr, map |-> NoMap, dist |-> NoDist]

Change(u, s) ==
    /\ pc = "serving"
    /\ session[u].state # "pending"
    /\ session' = [session EXCEPT ![u] = [Idle EXCEPT !.state = "pending", !.value = s]]
    /\ UNCHANGED <<xlsx, pc, df_resumo, df_atas, df_eqp, leaders, df_centroids>>

LeaderArg(selected_leader) == IF Truthy(selected_leader) THEN selected_leader ELSE None

Respond(u, m, d) ==
    IF m.error \/ d.error
    THEN [session EXCEPT ![u].state = "error"]
    ELSE [session EXCEPT ![u].state = "shown", ![u].map = m, ![u].dist = d]

(* Variant: the selection kept in one place shared by all sessions (the    *)
(* value of the first session) instead of the callback's argument.         *)
update_dashboard_shared(u) ==
    /\ pc = "serving"
    /\ session[u].state = "pending"
    /\ LET leader == LeaderArg(session[1].value)
       IN session' = Respond(u, build_map(leader), build_bars_pie(leader))
    /\ UNCHANGED <<xlsx, pc, df_resumo, df_atas, df_eqp, leaders, df_centroids>>

update_dashboard(u) ==
    /\ pc = "serving"
    /\ session[u].state = "pending"
    /\ LET leader == LeaderArg(session[u].value)
       IN session' = Respond(u, build_map(leader), build_bars_pie(leader))
    /\ UNCHANGED <<xlsx, pc, df_resumo, df_atas, df_eqp, leaders, df_centroids>>

(* --------------------------- specification ------------------------------ *)
Init ==
    /\ xlsx \in Files
    /\ pc = "start"
    /\ df_resumo = EmptyDF
    /\ df_atas = EmptyDF
    /\ df_eqp = EmptyDF
    /\ leaders = <<>>
    /\ df_centroids = <<>>
    /\ \E n \in 1..NumSessions :
          /\ n = 1 \/ xlsx \in CoreFiles
          /\ session = [u \in 1..n |-> Idle]

Next ==
    \/ Load
    \/ \E u \in DOMAIN session, s \in Selections : Change(u, s)
    \/ \E u \in DOMAIN session : update_dashboard(u)

Spec == Init /\ [][Next]_vars

(* ------------------------------ properties ----------------------------- *)
Shown == {u \in DOMAIN session : pc = "serving" /\ session[u].state = "shown"}
RowsOf(l) == SelectSeq(df_eqp.rows, LAMBDA r : r.ATA_Lider = l)
InLeaders(v) == v # EmptyStr /\ \E i \in DOMAIN leaders : leaders[i] = v
ModelsIn(rows) == {rows[i].Modelo : i \in DOMAIN rows} \ {NA}
ModelCount(rows, m) == Cardinality({i \in DOMAIN rows : rows[i].Modelo = m})
Distinct(s) == \A i, j \in DOMAIN s : s[i] = s[j] => i = j

(* The figure's series count the models of `rows` and of no other rows.     *)
CountsOver(d, rows) ==
    /\ Range(d.bars.x) \subseteq ModelsIn(rows)
    /\ (ModelsIn(rows) # {}) => (d.bars.x # <<>> /\ d.pie.labels # <<>>)
    /\ \A i \in DOMAIN d.bars.x : d.bars.y[i] = ModelCount(rows, d.bars.x[i])
    /\ \A i \in DOMAIN d.pie.labels :
          d.pie.labels[i] # Outros =>
             /\ d.pie.labels[i] \in ModelsIn(rows)
             /\ d.pie.values[i] = ModelCount(rows, d.pie.labels[i])

(* The rows build_bars_pie counts for the value v of the dropdown.          *)
SubsetFor(v) == IF InLeaders(v) THEN RowsOf(v) ELSE df_eqp.rows

(* C1, as claimed: with no leader given the distribution figure counts the  *)
(* models of all loaded equipment rows, and with any leader value given it  *)
(* counts those of exactly the rows of that leader.                         *)
C1_Original ==
    \A u \in Shown :
        CountsOver(session[u].dist,
                   IF session[u].value = EmptyStr THEN df_eqp.rows
                   ELSE RowsOf(session[u].value))

(* C1, amended: the distribution figure counts the models of exactly the    *)
(* rows of the given leader when that leader is one of Leaders, and of all  *)
(* loaded equipment rows when no leader is given or the given value is not  *)
(* one of Leaders.                                                          *)
C1_Amended ==
    \A u \in Shown : CountsOver(session[u].dist, SubsetFor(session[u].value))

C1_Witness ==
    \E u \in Shown :
        /\ session[u].value # EmptyStr
        /\ ~InLeaders(session[u].value)
        /\ ModelsIn(RowsOf(session[u].value)) # {}
        /\ \E i \in DOMAIN df_eqp.rows :
              df_eqp.rows[i].ATA_Lider # session[u].value
        /\ session[u].dist.title[1] = "Brasil inteiro"

(* C2: with more than 8 distinct models in the subset the pie has exactly 9 *)
(* categories, the 8 models of highest count with their counts and a last   *)
(* one, "Outros", holding the sum of the other models' counts; with 8 or    *)
(* fewer it has one category per distinct model with its count.             *)
C2_Claim ==
    \A u \in Shown :
        LET rows == SubsetFor(session[u].value)
            pie == session[u].dist.pie
            total == Sum([i \in DOMAIN rows |-> IF rows[i].Modelo = NA THEN 0 ELSE 1])
        IN IF Cardinality(ModelsIn(rows)) > 8
           THEN /\ Len(pie.labels) = 9
                /\ Distinct(SubSeq(pie.labels, 1, 8))
                /\ \A i \in 1..8 :
                      /\ pie.labels[i] \in ModelsIn(rows)
                      /\ pie.values[i] = ModelCount(rows, pie.labels[i])
                      /\ \A m \in ModelsIn(rows) \ Range(SubSeq(pie.labels, 1, 8)) :
                            ModelCount(rows, m) <= pie.values[i]
                /\ pie.labels[9] = Outros
                /\ pie.values[9] = total - Sum(SubSeq(pie.values, 1, 8))
           ELSE /\ Len(pie.labels) = Cardinality(ModelsIn(rows))
                /\ Range(pie.labels) = ModelsIn(rows)
                /\ \A i \in DOMAIN pie.labels :
                      pie.values[i] = ModelCount(rows, pie.labels[i])

(* C3: the bar series holds exactly min(5, number of distinct models) models *)
(* of the subset, each with its count in the subset, in non-increasing      *)
(* order of count, and no model left out has a greater count than one shown. *)
C3_Bars ==
    \A u \in Shown :
        LET rows == SubsetFor(session[u].value)
            bars == session[u].dist.bars
            n == Cardinality(ModelsIn(rows))
        IN /\ Len(bars.x) = (IF n < 5 THEN n ELSE 5)
           /\ Len(bars.y) = Len(bars.x)
           /\ Distinct(bars.x)
           /\ \A i \in DOMAIN bars.x :
                 /\ bars.x[i] \in ModelsIn(rows)
                 /\ bars.y[i] = ModelCount(rows, bars.x[i])
                 /\ \A j \in DOMAIN bars.x : i < j => bars.y[i] >= bars.y[j]
                 /\ \A m \in ModelsIn(rows) \ Range(bars.x) :
                       ModelCount(rows, m) <= bars.y[i]

C3_Witness ==
    \E u \in Shown :
        LET rows == SubsetFor(session[u].value)
            bars == session[u].dist.bars
        IN /\ Cardinality(ModelsIn(rows)) > 5
           /\ Len(bars.x) = 5
           /\ bars.y[1] > bars.y[5]
           /\ bars.x[1] # rows[1].Modelo
           /\ \E m \in ModelsIn(rows) \ Range(bars.x) : ModelCount(rows, m) = bars.y[5]

Stars(fig) == {i \in DOMAIN fig.data : fig.data[i].kind = "star"}
HasPoints(v) == InLeaders(v) /\ RowsOf(v) # <<>>

(* C4: the map has the star marker exactly when the selected leader is      *)
(* given, is one of Leaders and has at least one loaded equipment point;    *)
(* in every other case there is no star and the viewport is latitude        *)
(* [-34, 6], longitude [-75, -34].                                          *)
C4_Star ==
    \A u \in Shown :
        LET fig == session[u].map
        IN /\ HasPoints(session[u].value) <=> Stars(fig) # {}
           /\ Cardinality(Stars(fig)) <= 1
           /\ ~HasPoints(session[u].value) =>
                 /\ fig.lataxis = <<R(-34), R(6)>>
                 /\ fig.lonaxis = <<R(-75), R(-34)>>

C4_Witness ==
    \E u \in Shown :
        /\ InLeaders(session[u].value)
        /\ RowsOf(session[u].value) = <<>>
        /\ df_eqp.rows # <<>>
        /\ Stars(session[u].map) = {}

(* The range [min - pad, max + pad] with pad = max(20% of (max - min), 2),  *)
(* and what the claim derives from it.                                      *)
RangeAsClaimed(range, cells) ==
    LET lo == MinOf(cells)
        hi == MaxOf(cells)
        pad == IF (hi - lo) * 20 >= 2 * 100 THEN Rat((hi - lo) * 20, 100) ELSE R(2)
    IN /\ range = <<RSub(R(lo), pad), RAdd(R(hi), pad)>>
       /\ RLeq(range[1], R(lo - 2)) /\ RLeq(R(hi + 2), range[2])
       /\ RAdd(range[1], range[2]) = R(lo + hi)
       /\ RLeq(R(4), RSub(range[2], range[1]))

(* C5: for a selected leader of Leaders with at least one equipment point   *)
(* each axis range is [min - pad, max + pad] over that leader's points,     *)
(* pad = max(20% of the extent, 2 degrees): it contains the bounding box    *)
(* with a margin of at least 2 degrees, is centered on it and spans at      *)
(* least 4 degrees.                                                         *)
C5_Viewport ==
    \A u \in Shown :
        HasPoints(session[u].value) =>
            LET rows == RowsOf(session[u].value)
            IN /\ RangeAsClaimed(session[u].map.lataxis,
                                 {rows[i].Latitude : i \in DOMAIN rows})
               /\ RangeAsClaimed(session[u].map.lonaxis,
                                 {rows[i].Longitude : i \in DOMAIN rows})

C5_Witness ==
    \E u \in Shown :
        /\ HasPoints(session[u].value)
        /\ {r.Latitude : r \in Range(RowsOf(session[u].value))} = {-10, -12}
        /\ session[u].map.lataxis = <<R(-14), R(-8)>>

C5_WitnessWide ==
    \E u \in Shown :
        /\ HasPoints(session[u].value)
        /\ {r.Latitude : r \in Range(RowsOf(session[u].value))} = {-10, -30}
        /\ session[u].map.lataxis = <<R(-34), R(-6)>>

(* C6: the centroid table has exactly one entry per distinct leader value    *)
(* with at least one loaded equipment point, and each entry is the mean of   *)
(* that leader's points, which lies between their minimum and maximum on     *)
(* each axis.                                                                *)
C6_Centroids ==
    pc = "serving" =>
        LET keys == {df_eqp.rows[i].ATA_Lider : i \in DOMAIN df_eqp.rows} \ {NaN}
        IN /\ Len(df_centroids) = Cardinality(keys)
           /\ {df_centroids[i].ATA_Lider : i \in DOMAIN df_centroids} = keys
           /\ \A i \in DOMAIN df_centroids :
                 LET rows == RowsOf(df_centroids[i].ATA_Lider)
                     lats == [j \in DOMAIN rows |-> rows[j].Latitude]
                     lons == [j \in DOMAIN rows |-> rows[j].Longitude]
                     lat == df_centroids[i].Lat_Centroide
                     lon == df_centroids[i].Lon_Centroide
                 IN /\ lat[1] * Len(rows) = lat[2] * Sum(lats)
                    /\ lon[1] * Len(rows) = lon[2] * Sum(lons)
                    /\ RLeq(R(MinOf(Range(lats))), lat) /\ RLeq(lat, R(MaxOf(Range(lats))))
                    /\ RLeq(R(MinOf(Range(lons))), lon) /\ RLeq(lon, R(MaxOf(Range(lons))))

C6_Witness ==
    /\ pc = "serving"
    /\ Len(df_eqp.rows) < Len(xlsx.eqp.rows)
    /\ Len(df_centroids) = 2
    /\ \E i \in DOMAIN df_centroids :
          /\ Len(RowsOf(df_centroids[i].ATA_Lider)) = 2
          /\ df_centroids[i].Lat_Centroide = <<-11, 1>>
          /\ df_centroids[i].Lon_Centroide = <<-51, 1>>

C6_WitnessAbsent ==
    /\ pc = "serving"
    /\ df_centroids # <<>>
    /\ \E i \in DOMAIN leaders : RowsOf(leaders[i]) = <<>>
    /\ \E i \in DOMAIN df_eqp.rows : df_eqp.rows[i].ATA_Lider = NaN

RequiredColumns(f) ==
    /\ "ATA_Lider" \in f.resumo.columns
    /\ {"Latitude", "Longitude"} \subseteq f.atas.columns
    /\ {"ATA_Lider", "Latitude", "Longitude"} \subseteq f.eqp.columns

(* C7: the load fails whenever a required column is missing from the        *)
(* workbook, so no request is served from such a workbook, and no callback  *)
(* fails.                                                                   *)
C7_Claim ==
    /\ pc = "serving" => RequiredColumns(xlsx)
    /\ \A u \in DOMAIN session : session[u].state # "error"

(* C8: every change with value s is answered with the pair                  *)
(* (build_map(s'), build_bars_pie(s')), s' being no selection when s is the *)
(* empty string and s otherwise, and fails only when building that pair     *)
(* fails, whatever the other sessions did or do; and no step after the load *)
(* modifies the loaded tables, Leaders or the centroid table.               *)
C8_Callback ==
    [][pc = "serving" =>
         /\ UNCHANGED <<df_resumo, df_atas, df_eqp, leaders, df_centroids>>
         /\ \A u \in DOMAIN session :
               (session[u].state = "pending" /\ session'[u].state # "pending") =>
                  LET s1 == IF session[u].value = EmptyStr THEN None
                            ELSE session[u].value
                      failed == build_map(s1).error \/ build_bars_pie(s1).error
                  IN /\ session'[u].value = session[u].value
                     /\ session'[u].state = (IF failed THEN "error" ELSE "shown")
                     /\ ~failed => /\ session'[u].map = build_map(s1)
                                   /\ session'[u].dist = build_bars_pie(s1)
                     /\ \A w \in DOMAIN session : w # u => session'[w] = session[w]]_vars

C8_Witness ==
    /\ Cardinality(Shown) >= 2
    /\ \E u, w \in Shown :
          /\ session[u].value = 1 /\ session[w].value = 2
          /\ session[u].map # session[w].map
          /\ session[u].dist # session[w].dist

(* The layers of a map: the reference layer if hasRef, then one equipment   *)
(* layer per leader of Leaders with points, in the order of Leaders, which  *)
(* is ascending, then the star layer if there is one.                       *)
LayersAre(d, hasRef) ==
    LET act == SelectSeq(leaders, LAMBDA l : RowsOf(l) # <<>>)
        nref == IF hasRef THEN 1 ELSE 0
        nstar == IF \E i \in DOMAIN d : d[i].kind = "star" THEN 1 ELSE 0
    IN /\ Len(d) = nref + Len(act) + nstar
       /\ \A i, j \in DOMAIN leaders : i < j => leaders[i] < leaders[j]
       /\ hasRef =>
             /\ d[1].kind = "atas"
             /\ d[1].lat = [i \in DOMAIN df_atas.rows |-> R(df_atas.rows[i].Latitude)]
             /\ d[1].lon = [i \in DOMAIN df_atas.rows |-> R(df_atas.rows[i].Longitude)]
       /\ \A j \in DOMAIN act :
             d[nref + j].kind = "equip" /\ d[nref + j].name = act[j]
       /\ nstar = 1 => d[Len(d)].kind = "star"

(* C9, as claimed: the reference layer is always the first layer of the     *)
(* map, followed by one equipment layer per leader of Leaders with points,   *)
(* in sorted order, and by the star layer, last, when a star is drawn.      *)
C9_Original == \A u \in Shown : LayersAre(session[u].map.data, TRUE)

(* C9, amended: the reference layer is the first layer exactly when at      *)
(* least one reference point is loaded, and there is no reference layer     *)
(* when none is; the equipment layers and the star layer follow as claimed. *)
C9_Amended == \A u \in Shown : LayersAre(session[u].map.data, df_atas.rows # <<>>)

C9_Witness ==
    \E u \in Shown :
        /\ df_atas.rows = <<>>
        /\ xlsx.atas.rows # <<>>
        /\ Len(session[u].map.data) = 3
        /\ session[u].map.data[3].kind = "star"

C9_WitnessSkip ==
    \E u \in Shown :
        /\ df_atas.rows # <<>>
        /\ \E i \in DOMAIN leaders : RowsOf(leaders[i]) = <<>>
        /\ Len(session[u].map.data) = 2

NonStar(d) == SelectSeq(d, LAMBDA t : t.kind # "star")
Position(s, v) == CHOOSE i \in DOMAIN s : s[i] = v

(* C10: the reference layer and the equipment layers are the same for every *)
(* selection; the layer of a leader has the palette colour at index (rank   *)
(* of the leader in Leaders) modulo the palette size and holds exactly that *)
(* leader's points; a loaded equipment point lies in exactly one equipment  *)
(* layer when its leader is one of Leaders and in none otherwise.           *)
C10_Layers ==
    \A u \in Shown :
        LET d == session[u].map.data
        IN /\ \A s \in Selections :
                 NonStar(build_map(IF s = EmptyStr THEN None ELSE s).data) = NonStar(d)
           /\ \A i \in DOMAIN d :
                 d[i].kind = "equip" =>
                    LET rows == RowsOf(d[i].name)
                        rank == Position(leaders, d[i].name) - 1
                    IN /\ d[i].color = palette[(rank % Len(palette)) + 1]
                       /\ d[i].text = [j \in DOMAIN rows |-> rows[j].Serial]
                       /\ d[i].lat = [j \in DOMAIN rows |-> R(rows[j].Latitude)]
                       /\ d[i].lon = [j \in DOMAIN rows |-> R(rows[j].Longitude)]
           /\ \A j \in DOMAIN df_eqp.rows :
                 Cardinality({i \in DOMAIN d :
                                 /\ d[i].kind = "equip"
                                 /\ df_eqp.rows[j].Serial \in Range(d[i].text)})
                    = (IF \E k \in DOMAIN leaders : leaders[k] = df_eqp.rows[j].ATA_Lider
                       THEN 1 ELSE 0)

C10_Witness ==
    \E u \in Shown :
        LET d == session[u].map.data
        IN /\ Len(d) = 12
           /\ d[1].color = d[11].color
           /\ d[1].name # d[11].name
           /\ d[12].kind = "star"

C10_WitnessUnmatched ==
    \E u \in Shown :
        /\ \E j \in DOMAIN df_eqp.rows :
              /\ df_eqp.rows[j].ATA_Lider # NaN
              /\ \A k \in DOMAIN leaders : leaders[k] # df_eqp.rows[j].ATA_Lider
        /\ \E i \in DOMAIN session[u].map.data : session[u].map.data[i].kind = "equip"

=============================================================================
